---- MODULE Spec2Model ----
(***************************************************************************)
(* Model of the bubble-mongo-linker reconciliation core                    *)
(* (jobs/processor.ts, the authoritative-collection version) and of the    *)
(* queue's retry layer around it.                                          *)
(*                                                                         *)
(* Strings are sequences of one-character strings, so that the normalizers *)
(* and the regular-expression matches are computed character by character. *)
(***************************************************************************)
EXTENDS Integers, Sequences, FiniteSets, TLC

\* ------------------------------------------------------------------------
\* Strings
\* ------------------------------------------------------------------------

\* The value of a missing field (JavaScript undefined); never a character.
Undefined == <<"undefined">>

\* !str : undefined and the empty string are falsy.
Falsy(s) == s = Undefined \/ s = <<>>

UpperAlpha == <<"A","B","C","D","E","F","G","H","I","J","K","L","M",
                "N","O","P","Q","R","S","T","U","V","W","X","Y","Z">>
LowerAlpha == <<"a","b","c","d","e","f","g","h","i","j","k","l","m",
                "n","o","p","q","r","s","t","u","v","w","x","y","z">>
Digits == {"0","1","2","3","4","5","6","7","8","9"}

IsUpper(c) == \E i \in 1..26 : UpperAlpha[i] = c
IsLower(c) == \E i \in 1..26 : LowerAlpha[i] = c
IsAlpha(c) == IsUpper(c) \/ IsLower(c)

ToLowerChar(c) ==
    IF IsUpper(c) THEN LowerAlpha[CHOOSE i \in 1..26 : UpperAlpha[i] = c] ELSE c

\* String.prototype.toLowerCase
ToLowerCase(s) == [i \in 1..Len(s) |-> ToLowerChar(s[i])]

\* s.slice(n) : the suffix of s from 0-based index n on.
Drop(s, n) == IF n >= Len(s) THEN <<>> ELSE SubSeq(s, n + 1, Len(s))

\* s.startsWith(p)
StartsWith(s, p) == Len(p) <= Len(s) /\ SubSeq(s, 1, Len(p)) = p

\* replace without the g flag: only the first character of the class is removed.
RemoveChars_First(s, class) ==
    LET hit == {i \in 1..Len(s) : s[i] \in class}
    IN  IF hit = {} THEN s
        ELSE LET i == CHOOSE x \in hit : \A y \in hit : x <= y
             IN  SubSeq(s, 1, i - 1) \o SubSeq(s, i + 1, Len(s))

\* s without its characters of the class, in order.
RECURSIVE RemoveChars(_, _)
RemoveChars(s, class) ==
    IF s = <<>> THEN <<>>
    ELSE IF Head(s) \in class THEN RemoveChars(Tail(s), class)
    ELSE <<Head(s)>> \o RemoveChars(Tail(s), class)

RECURSIVE TrimLeft(_)
TrimLeft(s) == IF s # <<>> /\ Head(s) = " " THEN TrimLeft(Tail(s)) ELSE s

RECURSIVE TrimRight(_)
TrimRight(s) ==
    IF s # <<>> /\ s[Len(s)] = " " THEN TrimRight(SubSeq(s, 1, Len(s) - 1)) ELSE s

\* String.prototype.trim
Trim(s) == TrimRight(TrimLeft(s))

\* Index of the first character of s that is in class, Len(s) + 1 if none.
FirstIn(s, class) ==
    IF \E i \in 1..Len(s) : s[i] \in class
    THEN CHOOSE i \in 1..Len(s) : s[i] \in class /\ \A j \in 1..(i - 1) : s[j] \notin class
    ELSE Len(s) + 1

\* s.split(sep)[0] for a one-character separator.
SplitFirst(s, sep) == SubSeq(s, 1, FirstIn(s, {sep}) - 1)

\* ------------------------------------------------------------------------
\* Normalizer
\* ------------------------------------------------------------------------

\* The character class of normalizeString's replace: [\s.,\/#!$%\^&\*;:{}=\-_`~()']
PunctClass == {" ", ".", ",", "/", "#", "!", "$", "%", "^", "&", "*", ";", ":",
               "{", "}", "=", "-", "_", "`", "~", "(", ")", "'"}

normalizeString(str) ==
    IF Falsy(str) THEN <<>>
    ELSE Trim(RemoveChars(ToLowerCase(str), PunctClass))

\* --- new URL(url), as far as hostname is concerned ---

SchemeChars(c) == IsAlpha(c) \/ c \in Digits \/ c \in {"+", "-", "."}

\* Index of the ":" that ends a URL scheme, 0 when the text has no scheme.
SchemeEnd(s) ==
    LET i == FirstIn(s, {":"})
    IN  IF i <= Len(s) /\ i > 1 /\ IsAlpha(s[1]) /\ \A j \in 2..(i - 1) : SchemeChars(s[j])
        THEN i ELSE 0

http  == <<"h","t","t","p">>
https == <<"h","t","t","p","s">>
www   == <<"w","w","w",".">>
SpecialSchemes == {http, https, <<"f","t","p">>, <<"w","s">>, <<"w","s","s">>}

RECURSIVE SkipSlashes(_)
SkipSlashes(s) == IF s # <<>> /\ Head(s) = "/" THEN SkipSlashes(Tail(s)) ELSE s

\* Code points a host may not contain (those of the modelled alphabet).
ForbiddenHost == {" ", "#", "/", ":", "?", "%", "^"}

\* The parse of url: [ok |-> whether new URL(url) returns, hostname |-> its hostname].
ParseURL(url) ==
    LET s      == Trim(url)
        e      == SchemeEnd(s)
        scheme == ToLowerCase(SubSeq(s, 1, e - 1))
        rest   == Drop(s, e)
        special == scheme \in SpecialSchemes
        hasAuth == special \/ StartsWith(rest, <<"/", "/">>)
        after  == IF special THEN SkipSlashes(rest) ELSE Drop(rest, 2)
        auth   == SubSeq(after, 1, FirstIn(after, {"/", "?", "#"}) - 1)
        host   == SubSeq(auth, 1, FirstIn(auth, {":"}) - 1)
        port   == Drop(auth, Len(host) + 1)
    IN  IF e = 0 THEN [ok |-> FALSE, hostname |-> <<>>]
        ELSE IF ~hasAuth THEN [ok |-> TRUE, hostname |-> <<>>]
        ELSE IF \/ special /\ host = <<>>
                \/ \E i \in 1..Len(host) : host[i] \in ForbiddenHost
                \/ \E i \in 1..Len(port) : port[i] \notin Digits
             THEN [ok |-> FALSE, hostname |-> <<>>]
        ELSE [ok |-> TRUE, hostname |-> IF special THEN ToLowerCase(host) ELSE host]

\* s.replace(/^www\./, '')
StripWww(s) == IF StartsWith(s, www) THEN Drop(s, 4) ELSE s

\* s.replace(/^(https?:\/\/)?(www\.)?/, '')
StripSchemeWww(s) ==
    LET a == IF StartsWith(s, https \o <<":", "/", "/">>) THEN Drop(s, 8)
             ELSE IF StartsWith(s, http \o <<":", "/", "/">>) THEN Drop(s, 7)
             ELSE s
    IN  StripWww(a)

normalizeUrl(url) ==
    IF Falsy(url) THEN <<>>
    ELSE IF ParseURL(url).ok THEN StripWww(ParseURL(url).hostname)
    ELSE SplitFirst(StripSchemeWww(ToLowerCase(url)), "/")

\* new URL(url) outside any try block: its TypeError leaves the function.
normalizeUrlCall_NoCatch(url) ==
    IF ~Falsy(url) /\ ~ParseURL(url).ok
    THEN [threw |-> TRUE, value |-> <<>>]
    ELSE [threw |-> FALSE, value |-> normalizeUrl(url)]

\* A call of normalizeUrl as its caller sees it: the value returned, or that it
\* threw. The only throwing expression, new URL(url), is inside the try block.
normalizeUrlCall(url) == [threw |-> FALSE, value |-> normalizeUrl(url)]

\* ------------------------------------------------------------------------
\* Regular expressions built from normalized text
\* ------------------------------------------------------------------------

\* One pattern character against one text character: "." is the wildcard,
\* every other character of the modelled alphabet is a literal.
CharMatches(p, c, ignoreCase) ==
    \/ p = "."
    \/ p = c
    \/ ignoreCase /\ ToLowerChar(p) = ToLowerChar(c)

\* The containment tested both ways: the text within the pattern counts too.
RegexTest_EitherWay(pattern, text, ignoreCase) ==
    \/ \E off \in 0..(Len(text) - Len(pattern)) :
          \A i \in 1..Len(pattern) : CharMatches(pattern[i], text[off + i], ignoreCase)
    \/ \E off \in 0..(Len(pattern) - Len(text)) :
          \A i \in 1..Len(text) : CharMatches(pattern[off + i], text[i], ignoreCase)

\* new RegExp(pattern, flags).test(text) / { $regex: pattern } : an unanchored
\* match, so the pattern may start at any offset of the text.
RegexTest(pattern, text, ignoreCase) ==
    \E off \in 0..(Len(text) - Len(pattern)) :
        \A i \in 1..Len(pattern) : CharMatches(pattern[i], text[off + i], ignoreCase)

\* phone.replace(/\D/g, '')
RECURSIVE DigitsOf(_)
DigitsOf(s) ==
    IF s = <<>> THEN <<>>
    ELSE IF Head(s) \in Digits THEN <<Head(s)>> \o DigitsOf(Tail(s))
    ELSE DigitsOf(Tail(s))

\* ------------------------------------------------------------------------
\* Data: the business collection and the upstream (Bubble) records
\* ------------------------------------------------------------------------

\* A null reference (mongo_business_id: null, findOne returning null).
Null == 0
NoDoc == [_id |-> Null]

\* Text literals used by the data below.
sAce     == <<"A","c","e">>
sAce2    == <<"A","c","e","2">>
sBo      == <<"B","o">>
sAceCo   == <<"a","c","e",".","c","o">>
sPhoneA  == <<"5","5","5","1","2","3","4">>
sPhoneB  == <<"5","5","5","9","8","7","6">>
sPhoneC  == <<"5","5","5","0","0","0","0">>
sMain    == <<"1"," ","M","a","i","n">>

\* The business collection (config.mongo.collectionName): read by the Matcher.
\* Entities 2 and 3 share a legacy identifier (old_pin_code).
BusinessEntities ==
    { [_id |-> 1, old_pin_code |-> "P1", name |-> sAce,
       website |-> <<"h","t","t","p",":","/","/">> \o sAceCo, phone |-> sPhoneA],
      [_id |-> 2, old_pin_code |-> "P2", name |-> sBo,
       website |-> <<"w","w","w",".","b","o",".","i","o">>, phone |-> sPhoneB],
      [_id |-> 3, old_pin_code |-> "P2", name |-> sAce2,
       website |-> sAceCo \o <<"/","2">>, phone |-> sPhoneC] }

\* The collections the worker may be started against.
BusinessCollections == {BusinessEntities, {e \in BusinessEntities : e._id # 3}}

\* Two collections with a single entity each, named Acme: one whose website is
\* the bare domain, one whose website is a host below it.
sAcme        == <<"A","c","m","e">>
sAcmeCom     == <<"a","c","m","e",".","c","o","m">>
sShopAcmeCom == <<"s","h","o","p",".">> \o sAcmeCom
AcmeOnly == { [_id |-> 4, old_pin_code |-> "P4", name |-> sAcme,
               website |-> sAcmeCom, phone |-> sPhoneA] }
ShopOnly == { [_id |-> 5, old_pin_code |-> "P5", name |-> sAcme,
               website |-> sShopAcmeCom, phone |-> sPhoneA] }
AcmeCollections == {AcmeOnly, ShopOnly}

\* The identifiers of the records checked against them.
AcmeIdSeq == <<"b9", "b10">>
AcmeIds == {AcmeIdSeq[i] : i \in 1..Len(AcmeIdSeq)}

\* A Bubble record as returned in apiResponse.response.
Rec(site, address, name, phone, uid1, uid) ==
    [site_1 |-> site, full_address_1 |-> address, name_1 |-> name, phone_1 |-> phone,
     email_1 |-> Undefined, Unique_ID_1 |-> uid1, Unique_ID |-> uid]

BubbleIdSeq == <<"b1", "b2", "b3", "b4", "b5", "b6", "b7", "b8">>
BubbleIds == {BubbleIdSeq[i] : i \in 1..Len(BubbleIdSeq)}

\* What GET baseUrl/bubbleId answers, per identifier (records never change upstream):
\*   "record"      a body whose response field is the record,
\*   "no_response" a 2xx body without a response field,
\*   "http404"     an HTTP 404 answer, which axios rejects with an AxiosError.
Upstream(b) ==
    CASE b = "b1" -> [kind |-> "record", record |->
             Rec(<<"h","t","t","p","s",":","/","/","w","w","w",".","A","c","e",".","c","o","/","x">>,
                 sMain, sAce, Undefined, "", "")]
      [] b = "b2" -> [kind |-> "record", record |->
             Rec(sAceCo, <<"1"," ","m","a","i","n",".">>, sBo,
                 <<"5","5","5","-","1","2","3","4">>, "", "")]
      [] b = "b3" -> [kind |-> "record", record |->
             Rec(<<"b","o",".","i","o">>, Undefined, sBo, Undefined, "P1", "")]
      [] b = "b4" -> [kind |-> "record", record |->
             Rec(<<"W","W","W",".","a","c","e",".","c","o","/">>, <<"1","-","M","a","i","n">>,
                 Undefined, Undefined, "", "P2")]
      [] b = "b5" -> [kind |-> "record", record |->
             Rec(<<"/">>, <<".", " ">>, sBo, sPhoneB, "P1", "")]
      [] b = "b6" -> [kind |-> "record", record |->
             Rec(<<>>, <<"2"," ","O","a","k">>, sBo, Undefined, "", "")]
      [] b = "b7" -> [kind |-> "no_response", record |-> Rec(<<>>, <<>>, <<>>, <<>>, "", "")]
      [] b = "b9" -> [kind |-> "record", record |->
             Rec(sShopAcmeCom, <<"9"," ","E","l","m">>, sAcme, Undefined, "P9", "")]
      [] b = "b10" -> [kind |-> "record", record |->
             Rec(sAcmeCom, <<"1","0"," ","E","l","m">>, sAcme, Undefined, "", "")]
      [] OTHER    -> [kind |-> "http404", record |-> Rec(<<>>, <<>>, <<>>, <<>>, "", "")]

\* Every identifier the data above has a record or an answer for.
AllBubbleIds == BubbleIds \cup AcmeIds

\* Every business collection of the data above.
AllBusinessCollections == BusinessCollections \cup AcmeCollections

\* ------------------------------------------------------------------------
\* State
\* ------------------------------------------------------------------------

\* Number of jobs in the queue.
NumJobs == 2
Jobs == 1..NumJobs

\* attempts: 3 in the options the producer gives every job.
Attempts == 3

\* Number of transient faults (a failed fetch, a failed storage call) the
\* environment injects in one behaviour.
MaxFaults == 1

VARIABLES
    authoritative,  \* the link (authoritative) collection: a set of documents
    nextId,         \* the next _id the driver generates for an inserted document
    business,       \* the business collection
    jobs,           \* per job: its data, its attempt count and the position and
                    \* locals of the processBubbleData run in progress
    faults,         \* number of transient faults injected so far
    sessionStats,   \* the worker's session counters
    issueLog,       \* per job: the entries written to the issue log, by kind
    worker,         \* the worker process: "running", "closing" or "exited"
                    \* ("idle" where no worker is started)
    signalled,      \* history: the jobs whose run was in flight when SIGINT arrived
    norm,           \* a text under the normalizers: the input and the values computed
    batch,          \* the batching worker: its link buffer, the insertMany calls in
                    \* flight and the position of its process
    producer        \* the API producer: the upstream records, its cursor and date
                    \* bookmark, and what it has enqueued

vars == <<authoritative, nextId, business, jobs, faults, sessionStats, issueLog, worker,
          signalled, norm, batch, producer>>

\* ------------------------------------------------------------------------
\* The Matcher's queries and the Reconciler's pure steps
\* ------------------------------------------------------------------------

RecordOf(b) == Upstream(b).record

\* deDuplicationKey
DeDuplicationKey(r) ==
    [website_normalized |-> normalizeUrl(r.site_1),
     address_normalized |-> normalizeString(r.full_address_1)]

\* The test for an empty key left out: no record is skipped.
MissingKey_Never(key) == FALSE

\* !deDuplicationKey.website_normalized && !deDuplicationKey.address_normalized
MissingKey(key) == key.website_normalized = <<>> /\ key.address_normalized = <<>>

KeyOf(doc) ==
    [website_normalized |-> doc.website_normalized,
     address_normalized |-> doc.address_normalized]

\* authoritativeCollection.findOne(deDuplicationKey): the documents it may return.
FindByKey(coll, key) == {d \in coll : KeyOf(d) = key}

\* bubbleRecord.Unique_ID_1 || bubbleRecord.Unique_ID
UniqueIdFromBubble(r) == IF r.Unique_ID_1 # "" THEN r.Unique_ID_1 ELSE r.Unique_ID

\* businessCollection.findOne({ old_pin_code: uniqueIdFromBubble }): the entities
\* it may return (it returns one of them when there are several).
DirectHits(r, biz) == {e \in biz : e.old_pin_code = UniqueIdFromBubble(r)}

\* The phone condition is pushed only for more than 6 digits.
PhoneDigits(r) == IF Falsy(r.phone_1) THEN <<>> ELSE DigitsOf(r.phone_1)
HasNameCondition(r)  == ~Falsy(r.name_1)
HasPhoneCondition(r) == ~Falsy(r.phone_1) /\ Len(PhoneDigits(r)) > 6

\* queryConditions.length > 0
HasQueryConditions(r) == HasNameCondition(r) \/ HasPhoneCondition(r)

\* businessCollection.find({ $and: [{ website: regex }, { $or: queryConditions }] })
FallbackMatches(r, biz) ==
    {e \in biz :
        /\ RegexTest(normalizeUrl(r.site_1), e.website, TRUE)
        /\ \/ HasNameCondition(r) /\ RegexTest(normalizeString(r.name_1), e.name, TRUE)
           \/ HasPhoneCondition(r) /\ RegexTest(PhoneDigits(r), e.phone, FALSE)}

\* The values above per identifier and collection, computed once: the records
\* and the business collection never change while the worker runs.
UpstreamKind  == [b \in AllBubbleIds |-> Upstream(b).kind]
SiteOfId      == [b \in AllBubbleIds |-> RecordOf(b).site_1]
KeyOfId       == [b \in AllBubbleIds |-> DeDuplicationKey(RecordOf(b))]
UniqueIdOfId  == [b \in AllBubbleIds |-> UniqueIdFromBubble(RecordOf(b))]
ConditionsOfId == [b \in AllBubbleIds |-> HasQueryConditions(RecordOf(b))]
\* The _ids of a collection; they tell the collections of the data apart, so
\* the tables of query results are indexed by them.
IdsOf(biz) == {e._id : e \in biz}
CollectionWithIds(ids) == CHOOSE biz \in AllBusinessCollections : IdsOf(biz) = ids
DirectHitsOf  == [ids \in {IdsOf(biz) : biz \in AllBusinessCollections} |->
                    [b \in AllBubbleIds |-> DirectHits(RecordOf(b), CollectionWithIds(ids))]]
FallbackMatchesOf == [ids \in {IdsOf(biz) : biz \in AllBusinessCollections} |->
                    [b \in AllBubbleIds |-> FallbackMatches(RecordOf(b), CollectionWithIds(ids))]]

Unmatched == [mongo_business_id |-> Null, match_type |-> "unmatched"]

\* The match stored for a direct-ID hit on entity e.
DirectMatch(e) == [mongo_business_id |-> e._id, match_type |-> "direct_id"]

\* The guard left out: the fallback tier is entered after a direct-ID hit too.
FallbackTierEntered_Always(mongoMatch) == TRUE

\* if (!mongoMatch.mongo_business_id) : whether the fallback tier is entered.
FallbackTierEntered(mongoMatch) == mongoMatch.mongo_business_id = Null

\* matches.length > 0 instead of === 1: the first result is taken.
FallbackResult_First(matches, mongoMatch) ==
    IF matches # {}
    THEN [mongo_business_id |-> (CHOOSE e \in matches : \A o \in matches : e._id <= o._id)._id,
          match_type |-> "fallback_match"]
    ELSE mongoMatch

\* if (matches.length === 1) mongoMatch = { matches[0]._id, 'fallback_match' }
FallbackResult(matches, mongoMatch) ==
    IF Cardinality(matches) = 1
    THEN [mongo_business_id |-> (CHOOSE e \in matches : TRUE)._id,
          match_type |-> "fallback_match"]
    ELSE mongoMatch

\* The document built with an empty bubble_ids array.
NewAuthoritativeDoc_NoIds(id, b, mongoMatch) ==
    LET r   == RecordOf(b)
        key == KeyOfId[b]
    IN  [_id |-> id,
         website_normalized |-> key.website_normalized,
         address_normalized |-> key.address_normalized,
         name |-> r.name_1, website |-> r.site_1, address |-> r.full_address_1,
         phone |-> r.phone_1, email |-> r.email_1,
         bubble_ids |-> <<>>,
         mongo_business_id |-> mongoMatch.mongo_business_id,
         match_type |-> mongoMatch.match_type]

\* newAuthoritativeDoc, with the _id the driver gives it.
NewAuthoritativeDoc(id, b, mongoMatch) ==
    LET r   == RecordOf(b)
        key == KeyOfId[b]
    IN  [_id |-> id,
         website_normalized |-> key.website_normalized,
         address_normalized |-> key.address_normalized,
         name |-> r.name_1, website |-> r.site_1, address |-> r.full_address_1,
         phone |-> r.phone_1, email |-> r.email_1,
         bubble_ids |-> <<b>>,
         mongo_business_id |-> mongoMatch.mongo_business_id,
         match_type |-> mongoMatch.match_type]

InSeq(x, s) == \E i \in 1..Len(s) : s[i] = x

\* An update that matches no document: the record is left as it is.
AddToSet_Miss(doc, b) == doc

\* $push instead of $addToSet: the identifier is appended unconditionally.
AddToSet_Push(doc, b) == [doc EXCEPT !.bubble_ids = Append(@, b)]

\* { $addToSet: { bubble_ids: bubbleId } } applied to one document.
AddToSet(doc, b) ==
    IF InSeq(b, doc.bubble_ids) THEN doc
    ELSE [doc EXCEPT !.bubble_ids = Append(@, b)]

\* A read-modify-write instead of an update operator: the array is written
\* back from the copy the run read at its lookup.
UpdateOneResult_Stale(coll, existing, b) ==
    {IF d._id = existing._id
     THEN [d EXCEPT !.bubble_ids = IF InSeq(b, existing.bubble_ids) THEN existing.bubble_ids
                                   ELSE Append(existing.bubble_ids, b)]
     ELSE d : d \in coll}

\* The update also $sets the denormalized fields from the record just fetched.
UpdateOneResult_Refresh(coll, existing, b) ==
    {IF d._id = existing._id
     THEN [AddToSet(d, b) EXCEPT !.name = RecordOf(b).name_1,
                                 !.website = RecordOf(b).site_1,
                                 !.address = RecordOf(b).full_address_1,
                                 !.phone = RecordOf(b).phone_1]
     ELSE d : d \in coll}

\* $set instead of $addToSet: the array is replaced by the one identifier.
UpdateOneResult_Set(coll, existing, b) ==
    {IF d._id = existing._id THEN [d EXCEPT !.bubble_ids = <<b>>] ELSE d : d \in coll}

\* updateOne({ _id: existingAuthoritativeDoc._id }, { $addToSet: ... }): the
\* collection afterwards. The update is applied by the store to the document as
\* it is then, not to the copy the run read earlier.
UpdateOneResult(coll, existing, b) ==
    {IF d._id = existing._id THEN AddToSet(d, b) ELSE d : d \in coll}

\* No unique index: every insert is accepted.
InsertRejected_NoIndex(coll, doc) == FALSE

\* The unique index { website_normalized: 1, address_normalized: 1 } rejects an
\* insert whose key is already present.
InsertRejected(coll, doc) == \E d \in coll : KeyOf(d) = KeyOf(doc)

\* ------------------------------------------------------------------------
\* Jobs and the processBubbleData run
\* ------------------------------------------------------------------------

\* concurrency: config.concurrentJobs (CONCURRENT_JOBS, default 5)
ConcurrentJobs == 5

NoResult == [status |-> "none", match_type |-> "undefined", bubbleId |-> "undefined"]

\* A job as the producer enqueues it.
NewJob(b) ==
    [bubbleId |-> b, pc |-> "waiting", attemptsMade |-> 0,
     existingAuthoritativeDoc |-> NoDoc, mongoMatch |-> Unmatched,
     result |-> NoResult, lastError |-> "none",
     consulted |-> FALSE, writes |-> 0, conflicts |-> 0]

Active(j) == jobs[j].pc \notin {"waiting", "completed", "failed"}

\* The old result shape for a record no tier matched: status unmatched, no match_type.
Returned_OldShape(job, status, matchType) ==
    [job EXCEPT !.pc = "completed",
                !.result = IF matchType = "unmatched"
                           THEN [status |-> "unmatched", match_type |-> "undefined",
                                 bubbleId |-> job.bubbleId]
                           ELSE [status |-> status, match_type |-> matchType,
                                 bubbleId |-> job.bubbleId]]

\* return { status, match_type, bubbleId } : the job completes.
Returned(job, status, matchType) ==
    [job EXCEPT !.pc = "completed",
                !.result = [status |-> status, match_type |-> matchType,
                            bubbleId |-> job.bubbleId]]

\* No attempts option on the job: the first throw fails it for good.
Thrown_NoRetry(job, err) ==
    [job EXCEPT !.attemptsMade = @ + 1, !.pc = "failed", !.lastError = err]

\* catch (error) { ...; throw error } : the attempt fails; the queue re-queues the
\* job while attempts are left and fails it for good otherwise.
Thrown(job, err) ==
    [job EXCEPT !.attemptsMade = @ + 1,
                !.pc = IF job.attemptsMade + 1 >= Attempts THEN "failed" ELSE "waiting",
                !.lastError = err,
                !.conflicts = IF err = "E11000" THEN @ + 1 ELSE @]

\* The continuation after the dedup lookup and the direct-ID tier: the fallback
\* query is awaited when the tier is entered and has a condition, the insert otherwise.
AfterDirect(job, mongoMatch) ==
    [job EXCEPT !.mongoMatch = mongoMatch,
                !.pc = IF FallbackTierEntered(mongoMatch) /\ ConditionsOfId[job.bubbleId]
                       THEN "fallbackFind" ELSE "insertOne"]

\* sessionStats as the module is loaded.
ZeroStats ==
    [jobsProcessed |-> 0, newRecordsCreated |-> 0, duplicatesFound |-> 0,
     directMatches |-> 0, fallbackMatches |-> 0, unmatched |-> 0,
     skipped |-> 0, failed |-> 0, notFound |-> 0]

NoIssues == [failed |-> 0, skipped |-> 0, not_found |-> 0]

\* The completed handler without its not_found branch and counter.
OnCompleted_NoNotFound(stats, result) ==
    LET s1 == [stats EXCEPT !.jobsProcessed = @ + 1]
    IN  IF result.status = "success"
        THEN IF result.match_type = "duplicate"
             THEN [s1 EXCEPT !.duplicatesFound = @ + 1]
             ELSE [s1 EXCEPT !.newRecordsCreated = @ + 1,
                     !.directMatches   = IF result.match_type = "direct_id" THEN @ + 1 ELSE @,
                     !.fallbackMatches = IF result.match_type = "fallback_match" THEN @ + 1 ELSE @,
                     !.unmatched       = IF result.match_type = "unmatched" THEN @ + 1 ELSE @]
        ELSE IF result.status = "skipped" THEN [s1 EXCEPT !.skipped = @ + 1]
        ELSE s1

\* worker.on('completed', (job, result) => ...): the counters afterwards.
OnCompleted(stats, result) ==
    LET s1 == [stats EXCEPT !.jobsProcessed = @ + 1]
    IN  IF result.status = "success"
        THEN IF result.match_type = "duplicate"
             THEN [s1 EXCEPT !.duplicatesFound = @ + 1]
             ELSE [s1 EXCEPT !.newRecordsCreated = @ + 1,
                     !.directMatches   = IF result.match_type = "direct_id" THEN @ + 1 ELSE @,
                     !.fallbackMatches = IF result.match_type = "fallback_match" THEN @ + 1 ELSE @,
                     !.unmatched       = IF result.match_type = "unmatched" THEN @ + 1 ELSE @]
        ELSE IF result.status = "skipped" THEN [s1 EXCEPT !.skipped = @ + 1]
        ELSE IF result.status = "not_found" THEN [s1 EXCEPT !.notFound = @ + 1]
        ELSE s1

\* worker.on('failed', (job, err) => ...): the counters afterwards.
OnFailed(stats) == [stats EXCEPT !.jobsProcessed = @ + 1, !.failed = @ + 1]

\* The issue-log entries of one job after a run returned result: 'Record Not
\* Found' is written by the run itself, 'Skipped Record' by the completed handler.
IssuesOnCompleted(issues, result) ==
    IF result.status = "skipped" THEN [issues EXCEPT !.skipped = @ + 1]
    ELSE IF result.status = "not_found" THEN [issues EXCEPT !.not_found = @ + 1]
    ELSE issues

\* issueLogger.error('Failed Job', ...) in the failed handler.
IssuesOnFailed(issues) == [issues EXCEPT !.failed = @ + 1]

\* What the worker does with the outcome of the step job j just made: the
\* queue emits completed when the run returned and failed when it threw, on
\* every attempt, and the handlers run before anything else does. A process
\* that has exited makes no step.
WorkerEvents(j) ==
    /\ worker # "exited"
    /\ IF jobs'[j].pc = "completed"
       THEN /\ sessionStats' = OnCompleted(sessionStats, jobs'[j].result)
            /\ issueLog' = [issueLog EXCEPT ![j] = IssuesOnCompleted(@, jobs'[j].result)]
       ELSE IF jobs'[j].attemptsMade > jobs[j].attemptsMade
       THEN /\ sessionStats' = OnFailed(sessionStats)
            /\ issueLog' = [issueLog EXCEPT ![j] = IssuesOnFailed(@)]
       ELSE UNCHANGED <<sessionStats, issueLog>>
    /\ UNCHANGED <<worker, signalled, norm, batch, producer>>

\* process.exit(0) without awaiting worker.close().
CloseResolved_NotAwaited(js) == TRUE

\* await worker.close() resolves once no run is in flight.
CloseResolved(js) == \A j \in Jobs : js[j].pc \in {"waiting", "completed", "failed"}

\* The worker takes a waiting job and calls processBubbleData(job); a worker
\* that is closing takes none.
\* lastError is what the latest attempt threw, kept until the next one starts.
StartJob(j) ==
    /\ jobs[j].pc = "waiting"
    /\ worker = "running"
    /\ Cardinality({k \in Jobs : Active(k)}) < ConcurrentJobs
    /\ jobs' = [jobs EXCEPT ![j] = [@ EXCEPT !.pc = "fetch",
                    !.existingAuthoritativeDoc = NoDoc, !.mongoMatch = Unmatched,
                    !.consulted = FALSE, !.writes = 0, !.lastError = "none"]]
    /\ UNCHANGED <<authoritative, nextId, business, faults>>
    /\ WorkerEvents(j)

\* await axios.get(...) resolves or rejects with an HTTP answer; the code then
\* runs up to the dedup lookup.
FetchAnswers(j) ==
    LET job == jobs[j]
        up  == UpstreamKind[job.bubbleId]
        key == KeyOfId[job.bubbleId]
    IN  /\ job.pc = "fetch"
        /\ jobs' = [jobs EXCEPT ![j] =
                CASE up = "http404"     -> Thrown(job, "http404")
                  [] up = "no_response" -> Returned(job, "not_found", "undefined")
                  [] OTHER -> IF MissingKey(key)
                              THEN Returned(job, "skipped", "undefined")
                              ELSE [job EXCEPT !.pc = "findOne"]]
        /\ UNCHANGED <<authoritative, nextId, business, faults>>
        /\ WorkerEvents(j)

\* await axios.get(...) rejects with a transient error (network, rate limit).
FetchFails(j) ==
    /\ jobs[j].pc = "fetch"
    /\ faults < MaxFaults
    /\ faults' = faults + 1
    /\ jobs' = [jobs EXCEPT ![j] = Thrown(@, "transient")]
    /\ UNCHANGED <<authoritative, nextId, business>>
    /\ WorkerEvents(j)

\* await authoritativeCollection.findOne(deDuplicationKey) answers.
FindExisting(j) ==
    LET job  == jobs[j]
        hits == FindByKey(authoritative, KeyOfId[job.bubbleId])
    IN  /\ job.pc = "findOne"
        /\ IF hits # {}
           THEN \E d \in hits :
                    jobs' = [jobs EXCEPT ![j] =
                        [job EXCEPT !.existingAuthoritativeDoc = d, !.pc = "updateOne"]]
           ELSE jobs' = [jobs EXCEPT ![j] =
                    IF UniqueIdOfId[job.bubbleId] # ""
                    THEN [job EXCEPT !.pc = "directLookup"]
                    ELSE AfterDirect(job, Unmatched)]
        /\ UNCHANGED <<authoritative, nextId, business, faults>>
        /\ WorkerEvents(j)

\* await authoritativeCollection.updateOne(..., { $addToSet }) answers.
UpdateExisting(j) ==
    LET job == jobs[j]
    IN  /\ job.pc = "updateOne"
        /\ authoritative' =
               UpdateOneResult(authoritative, job.existingAuthoritativeDoc, job.bubbleId)
        /\ jobs' = [jobs EXCEPT ![j] =
               Returned([job EXCEPT !.writes = @ + 1], "success", "duplicate")]
        /\ UNCHANGED <<nextId, business, faults>>
        /\ WorkerEvents(j)

\* The direct-ID tier with find().toArray() and matches.length === 1: several
\* hits count as none.
DirectLookup_UniqueOnly(j) ==
    LET job  == jobs[j]
        hits == DirectHitsOf[IdsOf(business)][job.bubbleId]
    IN  /\ job.pc = "directLookup"
        /\ IF Cardinality(hits) = 1
           THEN \E e \in hits : jobs' = [jobs EXCEPT ![j] = AfterDirect(job, DirectMatch(e))]
           ELSE jobs' = [jobs EXCEPT ![j] = AfterDirect(job, Unmatched)]
        /\ UNCHANGED <<authoritative, nextId, business, faults>>
        /\ WorkerEvents(j)

\* await businessCollection.findOne({ old_pin_code }) answers.
DirectLookup(j) ==
    LET job  == jobs[j]
        hits == DirectHitsOf[IdsOf(business)][job.bubbleId]
    IN  /\ job.pc = "directLookup"
        /\ IF hits # {}
           THEN \E e \in hits : jobs' = [jobs EXCEPT ![j] = AfterDirect(job, DirectMatch(e))]
           ELSE jobs' = [jobs EXCEPT ![j] = AfterDirect(job, Unmatched)]
        /\ UNCHANGED <<authoritative, nextId, business, faults>>
        /\ WorkerEvents(j)

\* await businessCollection.find(query).toArray() answers.
FallbackFind(j) ==
    LET job     == jobs[j]
        matches == FallbackMatchesOf[IdsOf(business)][job.bubbleId]
    IN  /\ job.pc = "fallbackFind"
        /\ jobs' = [jobs EXCEPT ![j] =
               [job EXCEPT !.mongoMatch = FallbackResult(matches, job.mongoMatch),
                           !.consulted = TRUE, !.pc = "insertOne"]]
        /\ UNCHANGED <<authoritative, nextId, business, faults>>
        /\ WorkerEvents(j)

\* The insert followed by a back-link written onto the matched business entity.
InsertNew_BackLink(j) ==
    LET job == jobs[j]
        doc == NewAuthoritativeDoc(nextId, job.bubbleId, job.mongoMatch)
    IN  /\ job.pc = "insertOne"
        /\ IF InsertRejected(authoritative, doc)
           THEN /\ jobs' = [jobs EXCEPT ![j] = Thrown(job, "E11000")]
                /\ UNCHANGED <<authoritative, nextId, business>>
           ELSE /\ authoritative' = authoritative \cup {doc}
                /\ nextId' = nextId + 1
                /\ business' = {IF e._id = doc.mongo_business_id
                                THEN [e EXCEPT !.old_pin_code = job.bubbleId] ELSE e
                                : e \in business}
                /\ jobs' = [jobs EXCEPT ![j] =
                       Returned([job EXCEPT !.writes = @ + 1], "success", doc.match_type)]
        /\ UNCHANGED faults
        /\ WorkerEvents(j)

\* A rejected insert merged into the existing record by the catch block, which
\* then rethrows all the same.
InsertNew_MergeAndRethrow(j) ==
    LET job == jobs[j]
        doc == NewAuthoritativeDoc(nextId, job.bubbleId, job.mongoMatch)
    IN  /\ job.pc = "insertOne"
        /\ IF InsertRejected(authoritative, doc)
           THEN /\ jobs' = [jobs EXCEPT ![j] = Thrown(job, "E11000")]
                /\ authoritative' =
                       {IF KeyOf(d) = KeyOf(doc) THEN AddToSet(d, job.bubbleId) ELSE d
                        : d \in authoritative}
                /\ UNCHANGED nextId
           ELSE /\ authoritative' = authoritative \cup {doc}
                /\ nextId' = nextId + 1
                /\ jobs' = [jobs EXCEPT ![j] =
                       Returned([job EXCEPT !.writes = @ + 1], "success", doc.match_type)]
        /\ UNCHANGED <<business, faults>>
        /\ WorkerEvents(j)

\* await authoritativeCollection.insertOne(newAuthoritativeDoc) answers: the
\* document is stored, or the unique index rejects it and the run throws.
InsertNew(j) ==
    LET job == jobs[j]
        doc == NewAuthoritativeDoc(nextId, job.bubbleId, job.mongoMatch)
    IN  /\ job.pc = "insertOne"
        /\ IF InsertRejected(authoritative, doc)
           THEN /\ jobs' = [jobs EXCEPT ![j] = Thrown(job, "E11000")]
                /\ UNCHANGED <<authoritative, nextId>>
           ELSE /\ authoritative' = authoritative \cup {doc}
                /\ nextId' = nextId + 1
                /\ jobs' = [jobs EXCEPT ![j] =
                       Returned([job EXCEPT !.writes = @ + 1], "success", doc.match_type)]
        /\ UNCHANGED <<business, faults>>
        /\ WorkerEvents(j)

\* Any awaited storage call may fail for another reason (connection lost, ...).
StorageFails(j) ==
    /\ jobs[j].pc \in {"findOne", "updateOne", "directLookup", "fallbackFind", "insertOne"}
    /\ faults < MaxFaults
    /\ faults' = faults + 1
    /\ jobs' = [jobs EXCEPT ![j] = Thrown(@, "storage")]
    /\ UNCHANGED <<authoritative, nextId, business>>
    /\ WorkerEvents(j)

\* ------------------------------------------------------------------------
\* Specification
\* ------------------------------------------------------------------------

\* The link record a run for b1 stores in an empty collection: the collection
\* outlives the worker, so a session may start with it in place.
SeedDoc(biz) ==
    NewAuthoritativeDoc(1, "b1", FallbackResult(FallbackMatchesOf[IdsOf(biz)]["b1"], Unmatched))

\* The identifiers the producer enqueued, one per job (an identifier may be
\* enqueued more than once). Jobs are interchangeable, so they are listed in
\* the order of their identifiers.
\* No text is under the normalizers.
NormIdle == [stage |-> "idle"]

\* No batching worker is started.
BatchIdle == [phase |-> "idle"]

\* No producer is started.
ProducerIdle == [stage |-> "idle"]

\* The worker process as startWorker leaves it.
WorkerStarted ==
    /\ sessionStats = ZeroStats
    /\ issueLog = [j \in Jobs |-> NoIssues]
    /\ worker = "running"
    /\ signalled = {}
    /\ norm = NormIdle
    /\ batch = BatchIdle
    /\ producer = ProducerIdle

QueueContents ==
    {f \in [Jobs -> 1..Len(BubbleIdSeq)] : \A j \in Jobs : j + 1 \in Jobs => f[j] <= f[j + 1]}

Init ==
    /\ business \in BusinessCollections
    /\ \E seeded \in BOOLEAN :
        /\ authoritative = IF seeded THEN {SeedDoc(business)} ELSE {}
        /\ nextId = IF seeded THEN 2 ELSE 1
    /\ jobs \in {[j \in Jobs |-> NewJob(BubbleIdSeq[f[j]])] : f \in QueueContents}
    /\ faults = 0
    /\ WorkerStarted

Next ==
    \E j \in Jobs :
        \/ StartJob(j)
        \/ FetchAnswers(j)
        \/ FetchFails(j)
        \/ FindExisting(j)
        \/ UpdateExisting(j)
        \/ DirectLookup(j)
        \/ FallbackFind(j)
        \/ InsertNew(j)
        \/ StorageFails(j)

Spec == Init /\ [][Next]_vars

\* The worker started against a single-entity collection, with the queue
\* holding the two records that differ from its entity in the host form.
AcmeQueueContents ==
    {f \in [Jobs -> 1..Len(AcmeIdSeq)] : \A j \in Jobs : j + 1 \in Jobs => f[j] <= f[j + 1]}

InitAcme ==
    /\ business \in AcmeCollections
    /\ authoritative = {}
    /\ nextId = 1
    /\ jobs \in {[j \in Jobs |-> NewJob(AcmeIdSeq[f[j]])] : f \in AcmeQueueContents}
    /\ faults = 0
    /\ WorkerStarted

SpecAcme == InitAcme /\ [][Next]_vars

\* Two records with the same dedup key in the queue of a worker that keeps
\* running: the queue hands every waiting job to the worker and every awaited
\* call answers in the end.
RaceIdSeq == <<"b1", "b4">>

RaceQueueContents ==
    {f \in [Jobs -> 1..Len(RaceIdSeq)] : \A j \in Jobs : j + 1 \in Jobs => f[j] <= f[j + 1]}

InitRace ==
    /\ business = BusinessEntities
    /\ authoritative = {}
    /\ nextId = 1
    /\ jobs \in {[j \in Jobs |-> NewJob(RaceIdSeq[f[j]])] : f \in RaceQueueContents}
    /\ faults = 0
    /\ WorkerStarted

Progress(j) ==
    \/ StartJob(j)
    \/ FetchAnswers(j)
    \/ FindExisting(j)
    \/ UpdateExisting(j)
    \/ DirectLookup(j)
    \/ FallbackFind(j)
    \/ InsertNew(j)

SpecRace == InitRace /\ [][Next]_vars /\ \A j \in Jobs : WF_vars(Progress(j))

\* SIGINT arrives: shutdown starts and calls worker.close().
Sigint ==
    /\ worker = "running"
    /\ worker' = "closing"
    /\ signalled' = {j \in Jobs : Active(j)}
    /\ UNCHANGED <<authoritative, nextId, business, jobs, faults, sessionStats, issueLog,
                   norm, batch, producer>>

\* worker.close() has resolved: the report is printed and process.exit(0) runs.
Exit ==
    /\ worker = "closing"
    /\ CloseResolved(jobs)
    /\ worker' = "exited"
    /\ UNCHANGED <<authoritative, nextId, business, jobs, faults, sessionStats, issueLog,
                   signalled, norm, batch, producer>>

\* A session of the worker against the full business collection and an empty
\* link collection, ended by SIGINT at any moment.
InitWorker ==
    /\ business = BusinessEntities
    /\ authoritative = {}
    /\ nextId = 1
    /\ jobs \in {[j \in Jobs |-> NewJob(BubbleIdSeq[f[j]])] : f \in QueueContents}
    /\ faults = 0
    /\ WorkerStarted

NextWorker ==
    \/ \E j \in Jobs :
        \/ StartJob(j)
        \/ FetchAnswers(j)
        \/ FetchFails(j)
        \/ FindExisting(j)
        \/ UpdateExisting(j)
        \/ DirectLookup(j)
        \/ FallbackFind(j)
        \/ InsertNew(j)
        \/ StorageFails(j)
    \/ Sigint
    \/ Exit

SpecWorker == InitWorker /\ [][NextWorker]_vars

\* --- The normalizers on their own ---

\* Longest text drawn from the alphabet.
MaxLen == 3

NormAlphabet == {"A", "b", "1", " ", ".", "-"}

\* Every text over the alphabet of at most MaxLen characters.
BoundedTexts == UNION {[1..n -> NormAlphabet] : n \in 0..MaxLen}

\* The parts website texts are made of: an optional scheme, an optional
\* "www.", a host (with the host a normalizer should give for it) and a path.
UrlSchemes == {<<>>, <<"h","t","t","p","s",":","/","/">>, <<"h","t","t","p",":","/","/">>, <<"H","T","T","P",":","/","/">>}
UrlWww     == {<<>>, <<"w","w","w",".">>, <<"W","W","W",".">>}
UrlHosts   == {[raw |-> <<"E","x","a","m","p","l","e",".","c","o","m">>, host |-> <<"e","x","a","m","p","l","e",".","c","o","m">>],
               [raw |-> <<"n","o","t"," ","a"," ","u","r","l">>, host |-> <<"n","o","t"," ","a"," ","u","r","l">>],
               [raw |-> <<"a","c","e",".","c","o">>, host |-> <<"a","c","e",".","c","o">>],
               [raw |-> <<"B","o",".","I","O">>, host |-> <<"b","o",".","i","o">>]}
UrlPaths   == {<<>>, <<"/">>, <<"/","p","a","t","h">>, <<"/","a","/","b">>}

sExampleUrl == <<"h","t","t","p","s",":","/","/","w","w","w",".","E","x","a","m","p","l","e",".","c","o","m","/","p","a","t","h">>
sNotAUrl    == <<"n","o","t"," ","a"," ","u","r","l">>

\* The inputs of the normalizers: a field that is missing, any short text, and
\* website texts made of the parts above.
NormInputs ==
    {[input |-> Undefined, expected |-> <<>>, shaped |-> FALSE]}
    \cup {[input |-> t, expected |-> <<>>, shaped |-> FALSE] : t \in BoundedTexts}
    \cup {[input |-> sc \o w \o h.raw \o pa, expected |-> h.host, shaped |-> TRUE] :
              sc \in UrlSchemes, w \in UrlWww, h \in UrlHosts, pa \in UrlPaths}

InitNorm ==
    /\ business = BusinessEntities
    /\ authoritative = {}
    /\ nextId = 1
    /\ jobs = [j \in Jobs |-> NewJob("b1")]
    /\ faults = 0
    /\ sessionStats = ZeroStats
    /\ issueLog = [j \in Jobs |-> NoIssues]
    /\ worker = "idle"
    /\ signalled = {}
    /\ batch = BatchIdle
    /\ producer = ProducerIdle
    /\ \E i \in NormInputs :
          norm = [stage |-> "input", input |-> i.input, expected |-> i.expected,
                  shaped |-> i.shaped, text1 |-> <<>>, text2 |-> <<>>,
                  url |-> [threw |-> FALSE, value |-> <<>>]]

NormFrame ==
    UNCHANGED <<authoritative, nextId, business, jobs, faults, sessionStats, issueLog,
                worker, signalled, batch, producer>>

\* normalizeString(input)
ApplyNormalizeString ==
    /\ norm.stage = "input"
    /\ norm' = [norm EXCEPT !.stage = "text", !.text1 = normalizeString(norm.input)]
    /\ NormFrame

\* normalizeString applied to its own result.
ApplyNormalizeStringAgain ==
    /\ norm.stage = "text"
    /\ norm' = [norm EXCEPT !.stage = "text2", !.text2 = normalizeString(norm.text1)]
    /\ NormFrame

\* normalizeUrl(input)
ApplyNormalizeUrl ==
    /\ norm.stage = "input"
    /\ norm' = [norm EXCEPT !.stage = "url", !.url = normalizeUrlCall(norm.input)]
    /\ NormFrame

NextNorm == ApplyNormalizeString \/ ApplyNormalizeStringAgain \/ ApplyNormalizeUrl

SpecNorm == InitNorm /\ [][NextNorm]_vars

\* ------------------------------------------------------------------------
\* Properties
\* ------------------------------------------------------------------------

\* The identifier whose run inserted the link record d (bubble_ids: [bubbleId]).
CreatorOf(d) == d.bubble_ids[1]

NoRepeats(s) == \A m, n \in 1..Len(s) : s[m] = s[n] => m = n

EmptyKey(b) == KeyOfId[b].website_normalized = <<>> /\ KeyOfId[b].address_normalized = <<>>

\* C1: in every reachable state the link collection holds at most one record
\* for each (website_normalized, address_normalized) pair.
C1_UniqueDedupKey ==
    \A d1, d2 \in authoritative : KeyOf(d1) = KeyOf(d2) => d1 = d2

\* Two runs raced on one key: one inserted, the other's insert was rejected.
C1_Witness ==
    \E j \in Jobs : \E d \in authoritative :
        /\ jobs[j].lastError = "E11000"
        /\ KeyOf(d) = KeyOfId[jobs[j].bubbleId]
        /\ CreatorOf(d) # jobs[j].bubbleId

\* C2: when two records with different identifiers and one dedup key were
\* processed concurrently, both missing the lookup, then once both runs have
\* ended exactly one link record holds the key and its bubble_ids has both
\* identifiers.
C2_RaceKeepsBothIds ==
    \A j, k \in Jobs :
        ( /\ jobs[j].bubbleId # jobs[k].bubbleId
          /\ KeyOfId[jobs[j].bubbleId] = KeyOfId[jobs[k].bubbleId]
          /\ jobs[j].pc = "completed" /\ jobs[j].result.match_type # "duplicate"
          /\ jobs[j].result.status = "success"
          /\ jobs[k].lastError = "E11000" /\ ~Active(k) )
        => \E d \in authoritative :
              /\ FindByKey(authoritative, KeyOfId[jobs[j].bubbleId]) = {d}
              /\ InSeq(jobs[j].bubbleId, d.bubble_ids)
              /\ InSeq(jobs[k].bubbleId, d.bubble_ids)

\* C3: an insert rejected by the unique index is resolved inside the same run
\* by the update-merge; it never ends a run as a thrown error.
C3_ConflictNeverThrown ==
    \A j \in Jobs : jobs[j].lastError # "E11000"

\* C4: a record whose normalized website and address are both empty never
\* reaches a call on the link collection, writes nothing, and a run that returns
\* for it returns skipped.
C4_MissingKeySkipped ==
    \A j \in Jobs :
        (UpstreamKind[jobs[j].bubbleId] = "record" /\ EmptyKey(jobs[j].bubbleId))
        => /\ jobs[j].pc \in {"waiting", "fetch", "completed", "failed"}
           /\ jobs[j].writes = 0
           /\ jobs[j].existingAuthoritativeDoc = NoDoc
           /\ jobs[j].pc = "completed" => jobs[j].result.status = "skipped"
           /\ \A d \in authoritative : ~InSeq(jobs[j].bubbleId, d.bubble_ids)

\* A record with raw text in both fields and an empty key was skipped while the
\* link collection held a record.
C4_Witness ==
    \E j \in Jobs :
        /\ EmptyKey(jobs[j].bubbleId)
        /\ ~Falsy(SiteOfId[jobs[j].bubbleId])
        /\ jobs[j].pc = "completed" /\ jobs[j].result.status = "skipped"
        /\ authoritative # {}

\* C5: for a source record that does not exist upstream (a body without the
\* record, or an HTTP 404 answer) the run is a successful completion with status
\* not_found: nothing is thrown for it, it is not retried, nothing is written.
C5_NotFoundIsCompletion ==
    \A j \in Jobs :
        UpstreamKind[jobs[j].bubbleId] \in {"no_response", "http404"}
        => /\ jobs[j].lastError \in {"none", "transient"}
           /\ jobs[j].pc = "completed" => jobs[j].result.status = "not_found"
           /\ jobs[j].writes = 0

\* C6: a run for an identifier that is already in the record of its key leaves
\* the link collection as it is, and no bubble_ids ever lists an identifier twice.
C6_RerunIdempotent ==
    [][ /\ \A d \in authoritative' : NoRepeats(d.bubble_ids)
        /\ \A j \in Jobs :
             ( /\ jobs[j].pc = "updateOne" /\ jobs'[j].pc = "completed"
               /\ \E d \in authoritative :
                    /\ d._id = jobs[j].existingAuthoritativeDoc._id
                    /\ InSeq(jobs[j].bubbleId, d.bubble_ids) )
             => authoritative' = authoritative ]_vars

\* An identifier was reconciled as duplicate twice and is listed once.
C6_Witness ==
    \E j, k \in Jobs : \E d \in authoritative :
        /\ j # k /\ jobs[j].bubbleId = jobs[k].bubbleId
        /\ jobs[j].pc = "completed" /\ jobs[j].result.match_type = "duplicate"
        /\ jobs[k].pc = "completed" /\ jobs[k].result.match_type = "duplicate"
        /\ InSeq(jobs[j].bubbleId, d.bubble_ids)
        /\ CreatorOf(d) # jobs[j].bubbleId

\* C7: a run whose lookup found the record of its key ends with outcome
\* duplicate, and from then on its identifier is in the bubble_ids of the record
\* with that key, whatever other runs add to the record at the same time.
C7_NoLostUpdate ==
    \A j \in Jobs :
        (jobs[j].pc = "completed" /\ jobs[j].existingAuthoritativeDoc # NoDoc)
        => /\ jobs[j].result.status = "success" /\ jobs[j].result.match_type = "duplicate"
           /\ \E d \in authoritative :
                /\ d._id = jobs[j].existingAuthoritativeDoc._id
                /\ KeyOf(d) = KeyOfId[jobs[j].bubbleId]
                /\ InSeq(jobs[j].bubbleId, d.bubble_ids)

\* Two runs for different identifiers read the same copy of the record, neither
\* identifier in it, and both have added theirs.
C7_Witness ==
    \E j, k \in Jobs : \E d \in authoritative :
        /\ jobs[j].bubbleId # jobs[k].bubbleId
        /\ jobs[j].pc = "completed" /\ jobs[k].pc = "completed"
        /\ jobs[j].existingAuthoritativeDoc = jobs[k].existingAuthoritativeDoc
        /\ d._id = jobs[j].existingAuthoritativeDoc._id
        /\ ~InSeq(jobs[j].bubbleId, jobs[j].existingAuthoritativeDoc.bubble_ids)
        /\ ~InSeq(jobs[k].bubbleId, jobs[j].existingAuthoritativeDoc.bubble_ids)
        /\ InSeq(jobs[j].bubbleId, d.bubble_ids) /\ InSeq(jobs[k].bubbleId, d.bubble_ids)

\* C8: a link record inserted for a record whose legacy identifier is the
\* old_pin_code of exactly one business entity stores direct_id with that entity
\* as target, and the run never consults the fallback tier.
C8_DirectIdWins ==
    /\ \A d \in authoritative :
         LET hits == DirectHitsOf[IdsOf(business)][CreatorOf(d)]
         IN  Cardinality(hits) = 1
             => \A e \in hits : d.match_type = "direct_id" /\ d.mongo_business_id = e._id
    /\ \A j \in Jobs :
         Cardinality(DirectHitsOf[IdsOf(business)][jobs[j].bubbleId]) = 1
         => ~jobs[j].consulted /\ jobs[j].pc # "fallbackFind"

\* A run stored direct_id for a record whose website and name make the fallback
\* query match exactly one, different, entity.
C8_Witness ==
    \E j \in Jobs : \E d \in authoritative : \E e, o \in business :
        /\ jobs[j].pc = "completed" /\ CreatorOf(d) = jobs[j].bubbleId
        /\ DirectHitsOf[IdsOf(business)][jobs[j].bubbleId] = {e}
        /\ ConditionsOfId[jobs[j].bubbleId]
        /\ FallbackMatchesOf[IdsOf(business)][jobs[j].bubbleId] = {o} /\ o # e
        /\ d.match_type = "direct_id" /\ d.mongo_business_id = e._id

\* C9: a link record inserted for a record without a direct-ID hit whose
\* fallback query matches two or more business entities stores unmatched with a
\* null target.
C9_AmbiguousUnmatched ==
    /\ \A d \in authoritative :
        ( /\ DirectHitsOf[IdsOf(business)][CreatorOf(d)] = {}
          /\ ConditionsOfId[CreatorOf(d)]
          /\ Cardinality(FallbackMatchesOf[IdsOf(business)][CreatorOf(d)]) >= 2 )
        => d.match_type = "unmatched" /\ d.mongo_business_id = Null
    /\ \A j \in Jobs :
        (jobs[j].consulted /\ Cardinality(FallbackMatchesOf[IdsOf(business)][jobs[j].bubbleId]) >= 2)
        => jobs[j].mongoMatch = Unmatched

\* A run consulted the fallback tier, got two or more entities and stored unmatched.
C9_Witness ==
    \E j \in Jobs : \E d \in authoritative :
        /\ jobs[j].pc = "completed" /\ jobs[j].consulted
        /\ CreatorOf(d) = jobs[j].bubbleId /\ d._id = nextId - 1
        /\ Cardinality(FallbackMatchesOf[IdsOf(business)][jobs[j].bubbleId]) >= 2
        /\ d.match_type = "unmatched"

\* C10: a link record inserted for a record with an empty website and no
\* direct-ID hit is never classified fallback_match.
C10_FallbackNeedsWebsite ==
    \A d \in authoritative :
        (Falsy(SiteOfId[CreatorOf(d)]) /\ DirectHitsOf[IdsOf(business)][CreatorOf(d)] = {})
        => d.match_type # "fallback_match"

\* C11 (as stated): the record with website shop.acme.com, without a direct-ID
\* hit, checked against the collection whose only candidate has website
\* acme.com and a matching name, is stored as fallback_match.
C11_SubdomainRecordMatches ==
    \A d \in authoritative :
        (CreatorOf(d) = "b9" /\ business = AcmeOnly) => d.match_type = "fallback_match"

\* C11 (amended): that record is stored as unmatched with a null target; the
\* website condition holds the other way round, for the record with website
\* acme.com against the entity with website shop.acme.com and as well when the
\* two websites are the same.
C11_ContainmentDirection ==
    \A d \in authoritative :
        /\ (CreatorOf(d) = "b9" /\ business = AcmeOnly)
              => d.match_type = "unmatched" /\ d.mongo_business_id = Null
        /\ (CreatorOf(d) = "b10" /\ business = ShopOnly)
              => d.match_type = "fallback_match" /\ d.mongo_business_id = 5
        /\ (CreatorOf(d) = "b9" /\ business = ShopOnly)
              => d.match_type = "fallback_match" /\ d.mongo_business_id = 5
        /\ (CreatorOf(d) = "b10" /\ business = AcmeOnly)
              => d.match_type = "fallback_match" /\ d.mongo_business_id = 4

\* Against the acme.com entity, the shop.acme.com record was looked up by its
\* legacy identifier without a hit, went through the fallback query and was
\* stored unmatched, and the acme.com record was stored as a fallback match.
C11_Witness ==
    \E j, k \in Jobs : \E d, o \in authoritative :
        /\ business = AcmeOnly
        /\ jobs[j].bubbleId = "b9" /\ jobs[j].pc = "completed" /\ jobs[j].consulted
        /\ DirectHitsOf[IdsOf(business)]["b9"] = {}
        /\ CreatorOf(d) = "b9" /\ d.match_type = "unmatched"
        /\ jobs[k].bubbleId = "b10" /\ jobs[k].pc = "completed"
        /\ CreatorOf(o) = "b10" /\ o.match_type = "fallback_match"

\* C12: every value processBubbleData returns has status success, skipped or
\* not_found and carries the job's identifier; it has a match_type exactly when
\* the status is success, and that is duplicate, direct_id, fallback_match or
\* unmatched. A run that has not returned has no result.
C12_TaggedOutcome ==
    \A j \in Jobs :
        IF jobs[j].pc = "completed"
        THEN /\ jobs[j].result.status \in {"success", "skipped", "not_found"}
             /\ jobs[j].result.bubbleId = jobs[j].bubbleId
             /\ (jobs[j].result.match_type # "undefined") <=> (jobs[j].result.status = "success")
             /\ jobs[j].result.status = "success"
                  => jobs[j].result.match_type \in
                         {"duplicate", "direct_id", "fallback_match", "unmatched"}
        ELSE jobs[j].result = NoResult

\* One run returned not_found and another returned success with unmatched.
C12_Witness ==
    \E j, k \in Jobs :
        /\ jobs[j].pc = "completed" /\ jobs[j].result.status = "not_found"
        /\ jobs[k].pc = "completed" /\ jobs[k].result.status = "success"
        /\ jobs[k].result.match_type = "unmatched"

\* C13: a run throws only for a transient fetch error or a fatal storage
\* error; a missing record and a dedup-key conflict are completions.
C13_OnlyTransientOrFatalThrown ==
    \A j \in Jobs : jobs[j].lastError \in {"none", "transient", "storage"}

\* C16: no step of any reconciliation deletes a link record or shrinks one:
\* every record of the collection is still there after the step, with the same
\* dedup key and with every identifier it held.
C16_RecordsOnlyGrow ==
    [][\A d \in authoritative :
          \E e \in authoritative' :
              /\ e._id = d._id
              /\ e.website_normalized = d.website_normalized
              /\ e.address_normalized = d.address_normalized
              /\ \A i \in 1..Len(d.bubble_ids) : InSeq(d.bubble_ids[i], e.bubble_ids)]_vars

\* A record created by one run was extended by a later run for another
\* identifier, next to a second record.
C16_Witness ==
    \E d, o \in authoritative :
        /\ d._id # o._id
        /\ Len(d.bubble_ids) >= 2
        /\ \E j \in Jobs : jobs[j].pc = "completed" /\ jobs[j].result.match_type = "duplicate"

\* C18: no step of processBubbleData, on any path, writes to the business
\* collection.
C18_BusinessReadOnly == [][business' = business]_vars

\* One run stored a direct-ID match and another a fallback match, both after
\* querying the business collection.
C18_Witness ==
    \E j, k \in Jobs :
        /\ jobs[j].pc = "completed" /\ jobs[j].result.match_type = "direct_id"
        /\ jobs[k].pc = "completed" /\ jobs[k].result.match_type = "fallback_match"
        /\ jobs[k].consulted

RECURSIVE SumAttempts(_)
SumAttempts(S) ==
    IF S = {} THEN 0
    ELSE LET j == CHOOSE x \in S : TRUE
         IN  jobs[j].attemptsMade + SumAttempts(S \ {j})

\* C14: a job whose run throws is put back in the queue while it has made
\* fewer than 3 attempts and is failed at the third; no job makes more than 3
\* attempts; and every failed attempt, the last one included, is counted in
\* sessionStats.failed and has its entry in the issue log.
C14_BoundedRetryRecorded ==
    /\ [](\A j \in Jobs :
            /\ jobs[j].attemptsMade <= Attempts
            /\ (jobs[j].pc = "failed") <=> (jobs[j].attemptsMade = Attempts)
            /\ issueLog[j].failed = jobs[j].attemptsMade)
    /\ [](sessionStats.failed = SumAttempts(Jobs))
    /\ [][\A j \in Jobs :
            jobs'[j].attemptsMade > jobs[j].attemptsMade
                => /\ jobs'[j].attemptsMade = jobs[j].attemptsMade + 1
                   /\ jobs'[j].pc = IF jobs'[j].attemptsMade < Attempts
                                    THEN "waiting" ELSE "failed"]_vars

\* One job was failed after 3 attempts and another completed on a re-attempt.
C14_Witness ==
    \E j, k \in Jobs :
        /\ jobs[j].pc = "failed" /\ jobs[j].attemptsMade = Attempts
        /\ issueLog[j].failed = Attempts
        /\ jobs[k].pc = "completed" /\ jobs[k].attemptsMade >= 1

\* C15: once SIGINT has arrived no waiting job is started; the process exits
\* only when every run that was in flight at the signal has ended (returned or
\* thrown) and no run is in flight; and at exit every run that wrote to the
\* link collection has returned success with its identifier in a link record.
C15_GracefulShutdown ==
    /\ [][worker # "running"
            => \A j \in Jobs : jobs[j].pc = "waiting" => jobs'[j].pc = "waiting"]_vars
    /\ [](worker = "exited"
            => \A j \in Jobs :
                 /\ jobs[j].pc \in {"waiting", "completed", "failed"}
                 /\ j \in signalled => jobs[j].pc = "completed" \/ jobs[j].attemptsMade > 0
                 /\ jobs[j].writes > 0
                      => /\ jobs[j].pc = "completed" /\ jobs[j].result.status = "success"
                         /\ \E d \in authoritative : InSeq(jobs[j].bubbleId, d.bubble_ids))

\* The process exited after a run that was in flight at the signal stored its
\* record, with another job still waiting in the queue.
C15_Witness ==
    /\ worker = "exited"
    /\ \E j \in signalled : jobs[j].pc = "completed" /\ jobs[j].writes > 0
    /\ \E k \in Jobs : jobs[k].pc = "waiting"

\* C17: the session counters account for every completed and failed event.
C17_StatsAccountForAll ==
    /\ sessionStats.jobsProcessed =
           sessionStats.duplicatesFound + sessionStats.newRecordsCreated
           + sessionStats.skipped + sessionStats.notFound + sessionStats.failed
    /\ sessionStats.newRecordsCreated =
           sessionStats.directMatches + sessionStats.fallbackMatches + sessionStats.unmatched

\* A session counted a not_found completion and a failed attempt.
C17_Witness ==
    /\ sessionStats.notFound >= 1
    /\ sessionStats.failed >= 1
    /\ sessionStats.jobsProcessed >= 3

\* C19: normalizeString applied to its own result changes nothing; the result
\* holds no upper-case letter and no character of the removed class; and a
\* missing or empty input gives the empty string.
C19_NormalizeStringIdempotent ==
    /\ norm.stage = "text2" => norm.text2 = norm.text1
    /\ norm.stage \in {"text", "text2"} =>
          /\ \A i \in 1..Len(norm.text1) :
                norm.text1[i] \notin PunctClass /\ ~IsUpper(norm.text1[i])
          /\ (norm.input = Undefined \/ norm.input = <<>>) => norm.text1 = <<>>

\* A text with two removed characters inside and an upper-case letter was
\* normalized twice.
C19_Witness ==
    /\ norm.stage = "text2"
    /\ norm.input = <<"A", ".", "-">>
    /\ norm.text1 = <<"a">>

\* C20: normalizeUrl returns for every input; a missing or empty input gives
\* the empty string; a website text made of an optional scheme, an optional
\* "www.", a host and a path gives the host in lower case, whether new URL
\* parsed it or not; and the two examples give "example.com" and "not a url".
C20_NormalizeUrlTotal ==
    norm.stage = "url" =>
        /\ ~norm.url.threw
        /\ (norm.input = Undefined \/ norm.input = <<>>) => norm.url.value = <<>>
        /\ norm.shaped => norm.url.value = norm.expected
        /\ norm.input = sExampleUrl =>
              norm.url.value = <<"e","x","a","m","p","l","e",".","c","o","m">>
        /\ norm.input = sNotAUrl => norm.url.value = sNotAUrl

\* normalizeUrl returned for a text new URL does not parse.
C20_Witness ==
    /\ norm.stage = "url"
    /\ norm.input = <<"h","t","t","p",":","/","/">> \o sNotAUrl \o <<"/">>
    /\ norm.url.value = sNotAUrl

\* C21: a run writes the link collection at most once, one step changes at
\* most one of its documents, and the step by which a run throws is made by a
\* run that has written nothing and leaves the collection as it is.
C21_OneWriteNoneOnThrow ==
    /\ [](\A j \in Jobs : jobs[j].writes <= 1)
    /\ [][/\ Cardinality(authoritative' \ authoritative) <= 1
          /\ \A j \in Jobs :
               /\ jobs'[j].writes > jobs[j].writes => jobs'[j].pc = "completed"
               /\ jobs'[j].attemptsMade > jobs[j].attemptsMade
                    => jobs[j].writes = 0 /\ authoritative' = authoritative]_vars

\* One run threw on its rejected insert while the run that won the key has
\* returned after its single write.
C21_Witness ==
    \E j, k \in Jobs :
        /\ jobs[j].pc = "waiting" /\ jobs[j].lastError = "E11000" /\ jobs[j].writes = 0
        /\ jobs[k].pc = "completed" /\ jobs[k].writes = 1
        /\ KeyOfId[jobs[j].bubbleId] = KeyOfId[jobs[k].bubbleId]

\* C22: a job is rejected by the unique index at most once; from then on a
\* record with its key is in the collection, its runs never reach the matcher
\* or the insert again, a run of it that returns returns duplicate with the
\* identifier in that record, and if the job fails for good at least two of
\* its three attempts failed for another reason. With the queue and the
\* awaited calls making progress the job does end, completed or failed.
C22_ConflictRetriedAsDuplicate ==
    /\ [](\A j \in Jobs :
            /\ jobs[j].conflicts <= 1
            /\ jobs[j].pc = "failed" => jobs[j].attemptsMade - jobs[j].conflicts >= 2
            /\ jobs[j].conflicts = 1
                 => /\ \E d \in authoritative : KeyOf(d) = KeyOfId[jobs[j].bubbleId]
                    /\ jobs[j].pc \notin {"directLookup", "fallbackFind", "insertOne"}
                    /\ jobs[j].pc = "completed"
                         => /\ jobs[j].result.status = "success"
                            /\ jobs[j].result.match_type = "duplicate"
                            /\ \E d \in authoritative :
                                 /\ KeyOf(d) = KeyOfId[jobs[j].bubbleId]
                                 /\ InSeq(jobs[j].bubbleId, d.bubble_ids))
    /\ \A j \in Jobs :
          (jobs[j].conflicts = 1) ~> (jobs[j].pc \in {"completed", "failed"})

\* A job whose insert was rejected completed on its second attempt, its
\* identifier added to the record another identifier created.
C22_Witness ==
    \E j \in Jobs : \E d \in authoritative :
        /\ jobs[j].conflicts = 1 /\ jobs[j].attemptsMade = 1 /\ jobs[j].pc = "completed"
        /\ CreatorOf(d) # jobs[j].bubbleId
        /\ InSeq(jobs[j].bubbleId, d.bubble_ids)

\* C23: a run that found a record with its key does not run the matcher (it
\* holds no match and goes to no lookup, query or insert), and no step changes
\* any field of a stored record other than bubble_ids.
C23_DuplicatePathKeepsMatch ==
    /\ [](\A j \in Jobs :
            jobs[j].existingAuthoritativeDoc # NoDoc
                => /\ jobs[j].mongoMatch = Unmatched /\ ~jobs[j].consulted
                   /\ jobs[j].pc \in {"updateOne", "completed", "waiting", "failed"})
    /\ [][\A d \in authoritative :
             \E e \in authoritative' :
                 /\ e._id = d._id
                 /\ e = [d EXCEPT !.bubble_ids = e.bubble_ids]]_vars

\* A record stored with a direct-ID match was extended by a sighting whose own
\* record has no direct-ID hit and other denormalized fields.
C23_Witness ==
    \E d \in authoritative :
        /\ Len(d.bubble_ids) >= 2
        /\ d.match_type = "direct_id"
        /\ DirectHitsOf[IdsOf(business)][d.bubble_ids[2]] = {}
        /\ RecordOf(d.bubble_ids[2]).site_1 # d.website

\* C24: every link record holds at least one identifier, every identifier a
\* record holds has that record's dedup key, and no identifier is held by two
\* records.
C24_IdentifierInOneRecord ==
    /\ \A d \in authoritative :
         /\ d.bubble_ids # <<>>
         /\ \A i \in 1..Len(d.bubble_ids) : KeyOfId[d.bubble_ids[i]] = KeyOf(d)
    /\ \A d1, d2 \in authoritative :
         (\E i \in 1..Len(d1.bubble_ids) : InSeq(d1.bubble_ids[i], d2.bubble_ids))
            => d1._id = d2._id

\* Two records are stored, one of them holding two identifiers.
C24_Witness ==
    \E d1, d2 \in authoritative :
        /\ d1._id # d2._id
        /\ Len(d1.bubble_ids) = 2 /\ d1.bubble_ids[1] # d1.bubble_ids[2]
        /\ Len(d2.bubble_ids) = 1

\* C25: a record whose legacy identifier is that of two or more business
\* entities is stored direct_id with one of them as target, and its run does
\* not put the fallback query.
C25_FirstDirectHitWins ==
    /\ \A d \in authoritative :
         LET hits == DirectHitsOf[IdsOf(business)][CreatorOf(d)]
         IN  Cardinality(hits) >= 2
             => /\ d.match_type = "direct_id"
                /\ \E e \in hits : d.mongo_business_id = e._id
    /\ \A j \in Jobs :
         Cardinality(DirectHitsOf[IdsOf(business)][jobs[j].bubbleId]) >= 2
            => ~jobs[j].consulted /\ jobs[j].pc # "fallbackFind"

\* The record of b4, whose Unique_ID two entities share, is stored direct_id.
C25_Witness ==
    \E j \in Jobs : \E d \in authoritative :
        /\ jobs[j].pc = "completed" /\ jobs[j].result.match_type = "direct_id"
        /\ CreatorOf(d) = jobs[j].bubbleId
        /\ Cardinality(DirectHitsOf[IdsOf(business)][jobs[j].bubbleId]) = 2
        /\ d.match_type = "direct_id" /\ d.mongo_business_id \in {2, 3}

\* ------------------------------------------------------------------------
\* The batching worker (the superseded worker, src/src/workers/bubbleWorker.ts)
\*
\* Its processor returns the link documents of a record instead of storing
\* them; the worker buffers them in linkDocumentBatch and hands the buffer to
\* insertMany when it is full, every BATCH_TIMEOUT, and at shutdown.

\* Jobs the queue holds for the batching worker.
BatchJobs == 3

\* Most link documents one job returns (one per matching entity).
MaxLinks == 2

\* The buffer length at which the completed handler flushes (500 in the
\* source, scaled down).
BATCH_SIZE == 2

\* The link documents, named in the order the jobs return them.
LinkDocs == 1..(BatchJobs * MaxLinks)

\* The documents of a batch.
DocsOf(batchToInsert) == {batchToInsert[i] : i \in 1..Len(batchToInsert)}

\* flushBatch that hands the buffer to insertMany and leaves it as it is.
flushBatch_NoClear(b, cause) ==
    IF Len(b.linkDocumentBatch) = 0
    THEN b
    ELSE [b EXCEPT !.inflight = @ \cup {[batchToInsert |-> b.linkDocumentBatch,
                                         cause |-> cause]},
                   !.submitted = [d \in LinkDocs |->
                                     IF d \in DocsOf(b.linkDocumentBatch)
                                     THEN b.submitted[d] + 1 ELSE b.submitted[d]]]

\* flushBatch up to its await: nothing for an empty buffer; otherwise the
\* buffer is copied and emptied and the copy is handed to insertMany. cause
\* tells the caller apart: "timer", "size" (the completed handler, which
\* does not await it) or "shutdown" (which awaits it).
flushBatch(b, cause) ==
    IF Len(b.linkDocumentBatch) = 0
    THEN b
    ELSE [b EXCEPT !.linkDocumentBatch = <<>>,
                   !.inflight = @ \cup {[batchToInsert |-> b.linkDocumentBatch,
                                         cause |-> cause]},
                   !.submitted = [d \in LinkDocs |->
                                     IF d \in DocsOf(b.linkDocumentBatch)
                                     THEN b.submitted[d] + 1 ELSE b.submitted[d]]]

\* The batching worker as startWorker leaves it: the interval timer set, the
\* worker listening, nothing buffered. submitted counts, per document, the
\* insertMany calls it was passed to; finished holds the documents whose
\* insertMany has answered; stored those it has inserted.
BatchStarted ==
    [phase |-> "running", waiting |-> BatchJobs, active |-> 0, nextDoc |-> 1,
     linkDocumentBatch |-> <<>>, inflight |-> {},
     submitted |-> [d \in LinkDocs |-> 0], finished |-> {}, stored |-> {},
     jobsProcessed |-> 0, linksCreated |-> 0, failed |-> 0]

InitBatch ==
    /\ business = BusinessEntities
    /\ authoritative = {}
    /\ nextId = 1
    /\ jobs = [j \in Jobs |-> NewJob("b1")]
    /\ faults = 0
    /\ sessionStats = ZeroStats
    /\ issueLog = [j \in Jobs |-> NoIssues]
    /\ worker = "idle"
    /\ signalled = {}
    /\ norm = NormIdle
    /\ producer = ProducerIdle
    /\ batch = BatchStarted

BatchFrame ==
    UNCHANGED <<authoritative, nextId, business, jobs, faults, sessionStats, issueLog,
                worker, signalled, norm, producer>>

\* The worker takes a job from the queue.
BatchJobStarts ==
    /\ batch.phase = "running"
    /\ batch.waiting > 0
    /\ batch.active < ConcurrentJobs
    /\ batch' = [batch EXCEPT !.waiting = @ - 1, !.active = @ + 1]
    /\ BatchFrame

\* The 'completed' handler for a result with n link documents (none for an
\* unmatched or skipped record): they are pushed, and a full buffer is
\* flushed without awaiting the flush.
BatchJobCompleted(n) ==
    /\ batch.phase \in {"running", "closing"}
    /\ batch.active > 0
    /\ LET links  == [i \in 1..n |-> batch.nextDoc + i - 1]
           pushed == [batch EXCEPT !.active = @ - 1,
                                   !.jobsProcessed = @ + 1,
                                   !.linkDocumentBatch = @ \o links,
                                   !.nextDoc = @ + n]
       IN  batch' = IF Len(pushed.linkDocumentBatch) >= BATCH_SIZE
                    THEN flushBatch(pushed, "size")
                    ELSE pushed
    /\ BatchFrame

\* The 'failed' handler.
BatchJobFailed ==
    /\ batch.phase \in {"running", "closing"}
    /\ batch.active > 0
    /\ batch' = [batch EXCEPT !.active = @ - 1,
                              !.jobsProcessed = @ + 1,
                              !.failed = @ + 1]
    /\ BatchFrame

\* The interval timer fires and calls flushBatch (a call on an empty buffer
\* returns at once and changes nothing).
TimerFlush ==
    /\ batch.phase = "running"
    /\ Len(batch.linkDocumentBatch) > 0
    /\ batch' = flushBatch(batch, "timer")
    /\ BatchFrame

\* insertMany answers for one batch: it resolves (the documents are stored
\* and counted) or rejects (the error is logged, nothing else). When the
\* batch is the one shutdown awaits, shutdown goes on to its report and to
\* process.exit(0).
InsertManyAnswers(b, ok) ==
    /\ batch.phase # "exited"
    /\ b \in batch.inflight
    /\ batch' = [batch EXCEPT
                    !.inflight = @ \ {b},
                    !.finished = @ \cup DocsOf(b.batchToInsert),
                    !.stored = IF ok THEN @ \cup DocsOf(b.batchToInsert) ELSE @,
                    !.linksCreated = IF ok THEN @ + Len(b.batchToInsert) ELSE @,
                    !.phase = IF b.cause = "shutdown" THEN "exited" ELSE @]
    /\ BatchFrame

\* SIGINT: shutdown clears the interval timer and calls worker.close().
BatchSigint ==
    /\ batch.phase = "running"
    /\ batch' = [batch EXCEPT !.phase = "closing"]
    /\ BatchFrame

\* worker.close() has resolved (no job is running): shutdown calls
\* flushBatch and awaits it. On an empty buffer the call returns at once and
\* shutdown goes on to process.exit(0).
BatchCloseResolved ==
    /\ batch.phase = "closing"
    /\ batch.active = 0
    /\ batch' = IF Len(batch.linkDocumentBatch) = 0
                THEN [batch EXCEPT !.phase = "exited"]
                ELSE [flushBatch(batch, "shutdown") EXCEPT !.phase = "flushing"]
    /\ BatchFrame

NextBatch ==
    \/ BatchJobStarts
    \/ \E n \in 0..MaxLinks : BatchJobCompleted(n)
    \/ BatchJobFailed
    \/ TimerFlush
    \/ \E b \in batch.inflight : \E ok \in BOOLEAN : InsertManyAnswers(b, ok)
    \/ BatchSigint
    \/ BatchCloseResolved

SpecBatch == InitBatch /\ [][NextBatch]_vars

\* The link documents the completed jobs have returned so far.
Pushed == 1..(batch.nextDoc - 1)

\* The positions of the buffer that hold document d.
BufferPositions(d) == {i \in 1..Len(batch.linkDocumentBatch) : batch.linkDocumentBatch[i] = d}

\* C26: every link document pushed is either still in the buffer (once) and
\* was passed to no insertMany call, or is out of the buffer and was passed
\* to exactly one; and at exit every document pushed was passed to exactly one.
C26_EachDocumentSubmittedOnce ==
    \A d \in Pushed :
        /\ batch.submitted[d] <= 1
        /\ Cardinality(BufferPositions(d)) + batch.submitted[d] = 1
        /\ batch.submitted[d] = 1
              => \/ d \in batch.finished
                 \/ Cardinality({b \in batch.inflight : d \in DocsOf(b.batchToInsert)}) = 1
        /\ batch.phase = "exited" => batch.submitted[d] = 1

\* A size-triggered flush, a timer-driven flush and the shutdown flush are in
\* flight together.
C26_Witness ==
    /\ batch.phase = "flushing"
    /\ \A c \in {"size", "timer", "shutdown"} : \E b \in batch.inflight : b.cause = c

\* C27: when the process has exited, the insertMany of every link document a
\* completed job returned has finished.
C27_ExitAfterEveryInsertFinished ==
    batch.phase = "exited" => \A d \in Pushed : d \in batch.finished

\* ------------------------------------------------------------------------
\* The API producer (src/src/producer.ts, enqueueJobsFromAPI)

\* Most records the upstream data set holds.
MaxRecords == 7

\* Creation dates are 1..MaxDate; several records may share one.
MaxDate == 3

\* Records asked for per request (BATCH_SIZE of the producer, 100 in the
\* source, scaled down).
PRODUCER_BATCH_SIZE == 2

\* The cursor at which the inner loop is left (49900 in the source, scaled down).
CURSOR_LIMIT == 4

\* lastProcessedDate before the first page: null.
NoDate == 0

\* The upstream data sets: the creation dates of the records, oldest first.
\* A record is named by its position in that order.
UpstreamDataSets ==
    UNION {{r \in [1..n -> 1..MaxDate] : \A i \in 1..n : i + 1 \in 1..n => r[i] <= r[i + 1]} :
              n \in 0..MaxRecords}

\* The upstream search: the records that satisfy the constraint (all of them
\* when no constraint is sent), sorted by creation date ascending, from
\* offset cursor on, at most limit of them.
BubbleSearch(records, cursor, limit, lastProcessedDate) ==
    LET all      == [i \in 1..Len(records) |-> i]
        Matches(i) == lastProcessedDate = NoDate \/ records[i] > lastProcessedDate
        matching == SelectSeq(all, Matches)
        last     == IF cursor + limit < Len(matching) THEN cursor + limit ELSE Len(matching)
    IN  SubSeq(matching, cursor + 1, last)

\* The producer as enqueueJobsFromAPI starts: no date bookmark, nothing
\* enqueued, about to enter the outer loop.
ProducerStarted(records) ==
    [stage |-> "outer", records |-> records, cursor |-> 0,
     lastProcessedDate |-> NoDate, keepFetching |-> TRUE,
     enqueued |-> [i \in 1..MaxRecords |-> 0], totalEnqueued |-> 0, erred |-> FALSE]

InitProducer ==
    /\ business = BusinessEntities
    /\ authoritative = {}
    /\ nextId = 1
    /\ jobs = [j \in Jobs |-> NewJob("b1")]
    /\ faults = 0
    /\ sessionStats = ZeroStats
    /\ issueLog = [j \in Jobs |-> NoIssues]
    /\ worker = "idle"
    /\ signalled = {}
    /\ norm = NormIdle
    /\ batch = BatchIdle
    /\ \E r \in UpstreamDataSets : producer = ProducerStarted(r)

ProducerFrame ==
    UNCHANGED <<authoritative, nextId, business, jobs, faults, sessionStats, issueLog,
                worker, signalled, norm, batch>>

\* The outer loop: while keepFetching, a pagination loop starts at cursor 0;
\* otherwise the producer finishes.
StartPaginationLoop ==
    /\ producer.stage = "outer"
    /\ producer' = IF producer.keepFetching
                   THEN [producer EXCEPT !.stage = "paging", !.cursor = 0]
                   ELSE [producer EXCEPT !.stage = "finished"]
    /\ ProducerFrame

\* One turn of the inner loop: the request (with the date constraint as soon
\* as lastProcessedDate is set), the enqueueing of every record of the page,
\* and the update of cursor, lastProcessedDate and the two loop flags.
FetchPage ==
    /\ producer.stage = "paging"
    /\ LET results == BubbleSearch(producer.records, producer.cursor,
                                   PRODUCER_BATCH_SIZE, producer.lastProcessedDate)
           cursor  == producer.cursor + Len(results)
       IN  producer' =
             IF Len(results) = 0
             THEN [producer EXCEPT !.stage = "outer", !.keepFetching = FALSE]
             ELSE [producer EXCEPT
                     !.enqueued = [i \in 1..MaxRecords |->
                                     @[i] + Cardinality({k \in 1..Len(results) : results[k] = i})],
                     !.totalEnqueued = @ + Len(results),
                     !.cursor = cursor,
                     !.lastProcessedDate = producer.records[results[Len(results)]],
                     !.keepFetching = IF Len(results) < PRODUCER_BATCH_SIZE THEN FALSE ELSE @,
                     !.stage = IF cursor >= CURSOR_LIMIT \/ Len(results) < PRODUCER_BATCH_SIZE
                               THEN "outer" ELSE @]
    /\ ProducerFrame

\* The request fails: the error is logged and all fetching stops.
FetchError ==
    /\ producer.stage = "paging"
    /\ producer' = [producer EXCEPT !.stage = "outer", !.keepFetching = FALSE,
                                    !.erred = TRUE]
    /\ ProducerFrame

NextProducer ==
    \/ StartPaginationLoop
    \/ FetchPage
    \/ FetchError

SpecProducer == InitProducer /\ [][NextProducer]_vars

\* C28: when the producer has finished without a fetch error, every upstream
\* record has been enqueued exactly once.
C28_EveryRecordEnqueuedOnce ==
    (producer.stage = "finished" /\ ~producer.erred)
        => \A i \in 1..Len(producer.records) : producer.enqueued[i] = 1

====
